---- MODULE Spec2Model ----
(***************************************************************************)
(* State-machine model of the bountyforge program's three instructions:    *)
(*   attest_solution  (instructions/attest_solution.rs)                    *)
(*   submit_solution  (instructions/submit_solution.rs)                    *)
(*   settle_bounty    (instructions/settle_bounty.rs)                      *)
(*                                                                         *)
(* Every instruction is one transaction: the account constraints of its    *)
(* #[derive(Accounts)] struct are checked in field order, then the handler *)
(* runs on the loaded accounts.  The handler returns Result<()>; the       *)
(* accounts it wrote are committed only when it returns Ok(()), otherwise   *)
(* the transaction has no effect.  The handler operators below therefore   *)
(* return the error together with the accounts as the handler left them,   *)
(* and the actions commit them on "Ok" only.                               *)
(*                                                                         *)
(* Account references handed to an instruction are references to accounts  *)
(* that exist and have the declared type (Account<'info, T>).              *)
(* u64 counters are scaled down to the range 0..U64_MAX.                   *)
(*                                                                         *)
(* Each instruction has a step operator (AttestStep, SubmitStep,           *)
(* SettleStep) giving the outcome and the committed accounts of one call   *)
(* in the current state; the action of the instruction is that step taken. *)
(***************************************************************************)
EXTENDS Integers, FiniteSets, Sequences, TLC

\* ---------------------------------------------------------------- bounds
NumBounties == 3
MaxReward == 2
\* scaled-down stand-in for u64::MAX, the range of the Reputation counters
U64_MAX == 2

\* signers: two agents and a bounty creator (any of them may call anything)
Users == {"A", "B", "C"}
Agents == {"A", "B"}
Bounties == 1..NumBounties
\* solution_id values and 32-byte solution hashes
Tasks == {7, 8}
Hashes == {"H1", "H2"}

\* Pubkey::default(): the agent field of a freshly allocated (zeroed) account
DefaultPubkey == "default"
\* Option<[u8; 32]>::None
NoHash == "None"
\* the mint of every token account of the model, and a foreign mint
Mints == {"USDC", "OTHER"}

\* The bounties as the creation instruction left them: creator and reward.
CreatorOf(b) == "C"
RewardOf(b) == IF b = NumBounties THEN MaxReward ELSE 1

VARIABLES
  bounty,       \* Bounty accounts: [creator, reward, status, solution_hash]
  attestation,  \* Attestation accounts, keyed by solution_id (PDA "attest")
  reputation,   \* Reputation accounts, keyed by agent (PDA "rep")
  token,        \* token accounts: the amount each holds
  last,         \* the last instruction and its outcome: [op, result]
  submitter,    \* history: the signer of the submit that committed, per bounty
  paidOut,      \* history: value moved out of each bounty's escrow
  payee,        \* history: the agent named by the settle that committed
  proof         \* history: the attestations presented by committed submits

vars == <<bounty, attestation, reputation, token, last, submitter, paidOut,
          payee, proof>>

\* Token accounts: one per user (owner = the user) and the escrow of each
\* bounty (owner = the bounty account). Owners are tagged keys, and a token
\* account is named by its owner; owner and mint of an account never change.
UserKey(u) == <<"user", u>>
BountyKey(b) == <<"bounty", b>>
TokenAccounts == {UserKey(u) : u \in Users} \cup {BountyKey(b) : b \in Bounties}
\* TokenAccount.owner and TokenAccount.mint
TokenOwner(k) == k
TokenMint(k) == "USDC"

\* u64::checked_add: None (-1) when the sum is not representable
CheckedAdd(x, y) == IF x + y <= U64_MAX THEN x + y ELSE -1

\* mutant: a transfer the source cannot cover is reported as done
Transfer_ignoresShortfall(tok, from, to, amount) ==
  IF tok[from] < amount
  THEN [err |-> "Ok", token |-> tok]
  ELSE [err |-> "Ok",
        token |-> [tok EXCEPT ![from] = @ - amount,
                              ![to] = tok[to] + amount]]

\* anchor_spl::token::transfer: moves amount or fails as a whole. Amounts are
\* bounded by the mint's supply, so the destination cannot overflow.
Transfer(tok, from, to, amount) ==
  IF tok[from] < amount
  THEN [err |-> "InsufficientFunds", token |-> tok]
  ELSE [err |-> "Ok",
        token |-> [tok EXCEPT ![from] = @ - amount,
                              ![to] = tok[to] + amount]]

\* ------------------------------------------------------------------ Init
\* Bounties exist Open, without a solution hash, with their reward escrowed
\* (creation and funding are another instruction); nothing else exists yet.
Init ==
  /\ bounty = [b \in Bounties |->
                 [creator |-> CreatorOf(b), reward |-> RewardOf(b),
                  status |-> "Open", solution_hash |-> NoHash]]
  /\ token = [k \in TokenAccounts |->
                IF k[1] = "user" THEN 0 ELSE RewardOf(k[2])]
  /\ attestation = << >>
  /\ reputation = << >>
  /\ last = [op |-> "none", result |-> "Ok"]
  /\ submitter = [b \in Bounties |-> DefaultPubkey]
  /\ paidOut = [b \in Bounties |-> 0]
  /\ payee = [b \in Bounties |-> DefaultPubkey]
  /\ proof = [b \in Bounties |-> {}]

\* ------------------------------------------------------- attest_solution
\* clock values Clock::get() may return
Times == {1700000000}

\* mutant: init_if_needed, an existing account is accepted
AttestConstraints_ifNeeded(solution_id) == "Ok"

\* AttestSolution accounts: `init` on the PDA seeded by solution_id fails
\* when the account already exists.
AttestConstraints(solution_id) ==
  IF solution_id \in DOMAIN attestation THEN "AccountAlreadyInUse" ELSE "Ok"

\* The handler: the Attestation it writes.
attest_solution(agent, solution_id, solution_hash, now) ==
  [solution_id |-> solution_id,
   solution_hash |-> solution_hash,
   timestamp |-> now,
   agent |-> agent,
   verified |-> FALSE]

AttestStep(agent, solution_id, solution_hash, now) ==
  LET res == AttestConstraints(solution_id) IN
  [result |-> res,
   attestation |->
     IF res = "Ok"
     THEN (solution_id :> attest_solution(agent, solution_id, solution_hash, now))
            @@ attestation
     ELSE attestation]

AttestSolution(agent, solution_id, solution_hash, now) ==
  LET step == AttestStep(agent, solution_id, solution_hash, now) IN
  /\ last' = [op |-> "attest", result |-> step.result]
  /\ attestation' = step.attestation
  /\ UNCHANGED <<bounty, reputation, token, submitter, paidOut, payee, proof>>

\* ------------------------------------------------------- submit_solution
\* mutant: the attestation's owner is checked before the bounty's state
SubmitConstraints_ownerFirst(agent, b, task) ==
  IF attestation[task].agent # agent THEN "AttestationOwnerMismatch"
  ELSE IF bounty[b].status # "Open" THEN "BountyNotOpen"
  ELSE IF bounty[b].solution_hash # NoHash THEN "BountyAlreadySubmitted"
  ELSE "Ok"

\* mutant: the bounty's status and hash are not checked
SubmitConstraints_onlyOwner(agent, b, task) ==
  IF attestation[task].agent # agent THEN "AttestationOwnerMismatch" ELSE "Ok"

\* Constraints of the SubmitSolution accounts, in field order.
SubmitConstraints(agent, b, task) ==
  IF bounty[b].status # "Open" THEN "BountyNotOpen"
  ELSE IF bounty[b].solution_hash # NoHash THEN "BountyAlreadySubmitted"
  ELSE IF attestation[task].agent # agent THEN "AttestationOwnerMismatch"
  ELSE "Ok"

\* init_if_needed: the caller's Reputation PDA, allocated zeroed if absent
ZeroedReputation ==
  [agent |-> DefaultPubkey, score |-> 0, successful_bounties |-> 0,
   failed_bounties |-> 0, total_earned |-> 0]

\* mutant: the account is allocated afresh on every submit
InitIfNeeded_alwaysFresh(agent) == ZeroedReputation

InitIfNeeded(agent) ==
  IF agent \in DOMAIN reputation THEN reputation[agent] ELSE ZeroedReputation

\* mutant: the hash of the attestation is not compared
HashMatches_unchecked(att, solution_hash) == TRUE

\* require!(attestation.solution_hash == solution_hash)
HashMatches(att, solution_hash) == att.solution_hash = solution_hash

\* mutant: a new record starts at score 0
NewReputation_scoreZero(agent) ==
  [agent |-> agent, score |-> 0, successful_bounties |-> 0,
   failed_bounties |-> 0, total_earned |-> 0]

\* the Reputation written for an agent that had none
NewReputation(agent) ==
  [agent |-> agent, score |-> 1, successful_bounties |-> 0,
   failed_bounties |-> 0, total_earned |-> 0]

\* mutant: the score saturates instead of failing
ScoreAfter_saturating(rep) ==
  IF rep.score = U64_MAX THEN U64_MAX ELSE rep.score + 1

\* mutant: the score wraps instead of failing
ScoreAfter_wrapping(rep) == (rep.score + 1) % (U64_MAX + 1)

\* score.checked_add(1)
ScoreAfter(rep) == CheckedAdd(rep.score, 1)

\* The handler: the error it returns and the accounts as it left them.
submit_solution(agent, b, task, solution_hash) ==
  LET rep0 == InitIfNeeded(agent) IN
  IF ~HashMatches(attestation[task], solution_hash)
  THEN [err |-> "SolutionHashMismatch", bounty |-> bounty[b],
        reputation |-> rep0]
  ELSE
    LET bounty1 == [bounty[b] EXCEPT !.solution_hash = solution_hash,
                                     !.status = "Submitted"]
    IN
    IF rep0.agent = DefaultPubkey
    THEN [err |-> "Ok", bounty |-> bounty1, reputation |-> NewReputation(agent)]
    ELSE
      LET score == ScoreAfter(rep0) IN
      IF score = -1
      THEN [err |-> "ReputationScoreOverflow", bounty |-> bounty1,
            reputation |-> rep0]
      ELSE [err |-> "Ok", bounty |-> bounty1,
            reputation |-> [rep0 EXCEPT !.score = score]]

\* One submit transaction: constraints, handler, commit on Ok only.
SubmitStep(agent, b, task, solution_hash) ==
  LET c == SubmitConstraints(agent, b, task)
      out == submit_solution(agent, b, task, solution_hash)
      res == IF c # "Ok" THEN c ELSE out.err
  IN
  IF res = "Ok"
  THEN [result |-> res,
        bounty |-> [bounty EXCEPT ![b] = out.bounty],
        reputation |-> (agent :> out.reputation) @@ reputation,
        submitter |-> [submitter EXCEPT ![b] = agent],
        proof |-> [proof EXCEPT ![b] = {task}]]
  ELSE [result |-> res, bounty |-> bounty, reputation |-> reputation,
        submitter |-> submitter, proof |-> proof]

SubmitSolution(agent, b, task, solution_hash) ==
  LET step == SubmitStep(agent, b, task, solution_hash) IN
  /\ last' = [op |-> "submit", result |-> step.result]
  /\ bounty' = step.bounty
  /\ reputation' = step.reputation
  /\ submitter' = step.submitter
  /\ proof' = step.proof
  /\ UNCHANGED <<attestation, token, paidOut, payee>>

\* --------------------------------------------------------- settle_bounty
\* mutant: any signer may settle
IsCreator_anySigner(signer, bnty) == TRUE

\* creator.key() == bounty.creator
IsCreator(signer, bnty) == signer = bnty.creator

\* Constraints of the SettleBounty accounts, in field order. rep names the
\* Reputation account passed in, agent the payee account, ata and bta the
\* two token accounts, mint the usdc_mint account.
SettleConstraints(creator, b, rep, agent, ata, bta, mint) ==
  IF bounty[b].status # "Submitted" THEN "BountyNotSubmitted"
  ELSE IF bounty[b].solution_hash = NoHash THEN "BountyAlreadySubmitted"
  ELSE IF ~IsCreator(creator, bounty[b]) THEN "UnauthorizedSettlement"
  ELSE IF reputation[rep].agent # agent THEN "ReputationOwnerMismatch"
  ELSE IF TokenOwner(ata) # UserKey(agent) THEN "ConstraintRaw"
  ELSE IF TokenMint(ata) # mint THEN "ConstraintRaw"
  ELSE IF TokenOwner(bta) # BountyKey(b) THEN "ConstraintRaw"
  ELSE IF TokenMint(bta) # mint THEN "ConstraintRaw"
  ELSE "Ok"

\* mutant: total_earned wraps instead of failing
EarnedAfter_wrapping(rep, reward) ==
  (rep.total_earned + reward) % (U64_MAX + 1)

\* mutant: total_earned counts the bounty, not its reward
EarnedAfter_countsOne(rep, reward) == CheckedAdd(rep.total_earned, 1)

\* total_earned.checked_add(bounty.reward)
EarnedAfter(rep, reward) == CheckedAdd(rep.total_earned, reward)

\* mutant: the status is left as it was
MarkSettled_skipped(bnty) == bnty

\* mutant: the bounty is reopened
MarkSettled_reopens(bnty) == [bnty EXCEPT !.status = "Open"]

\* bounty.status = BountyStatus::Settled
MarkSettled(bnty) == [bnty EXCEPT !.status = "Settled"]

\* The handler: the error it returns and the accounts as it left them.
settle_bounty(b, rep, ata, bta) ==
  LET t == Transfer(token, bta, ata, bounty[b].reward) IN
  IF t.err # "Ok"
  THEN [err |-> t.err, bounty |-> bounty[b], reputation |-> reputation[rep],
        token |-> t.token]
  ELSE
    LET sb == CheckedAdd(reputation[rep].successful_bounties, 1) IN
    IF sb = -1
    THEN [err |-> "ReputationOverflow", bounty |-> bounty[b],
          reputation |-> reputation[rep], token |-> t.token]
    ELSE
      LET rep1 == [reputation[rep] EXCEPT !.successful_bounties = sb]
          te == EarnedAfter(rep1, bounty[b].reward)
      IN
      IF te = -1
      THEN [err |-> "ReputationOverflow", bounty |-> bounty[b],
            reputation |-> rep1, token |-> t.token]
      ELSE [err |-> "Ok",
            bounty |-> MarkSettled(bounty[b]),
            reputation |-> [rep1 EXCEPT !.total_earned = te],
            token |-> t.token]

\* One settle transaction: constraints, handler, commit on Ok only.
SettleStep(creator, b, rep, agent, ata, bta, mint) ==
  LET c == SettleConstraints(creator, b, rep, agent, ata, bta, mint)
      out == settle_bounty(b, rep, ata, bta)
      res == IF c # "Ok" THEN c ELSE out.err
  IN
  IF res = "Ok"
  THEN [result |-> res,
        bounty |-> [bounty EXCEPT ![b] = out.bounty],
        reputation |-> [reputation EXCEPT ![rep] = out.reputation],
        token |-> out.token,
        paidOut |-> [paidOut EXCEPT ![b] = @ + bounty[b].reward],
        payee |-> [payee EXCEPT ![b] = agent]]
  ELSE [result |-> res, bounty |-> bounty, reputation |-> reputation,
        token |-> token, paidOut |-> paidOut, payee |-> payee]

SettleBounty(creator, b, rep, agent, ata, bta, mint) ==
  LET step == SettleStep(creator, b, rep, agent, ata, bta, mint) IN
  /\ last' = [op |-> "settle", result |-> step.result]
  /\ bounty' = step.bounty
  /\ reputation' = step.reputation
  /\ token' = step.token
  /\ paidOut' = step.paidOut
  /\ payee' = step.payee
  /\ UNCHANGED <<attestation, submitter, proof>>

\* ------------------------------------------------------------------ Next
\* The calls a transaction can make in the current state.
AttestCalls == Agents \X Tasks \X Hashes \X Times

SubmitCalls == Agents \X Bounties \X (DOMAIN attestation) \X Hashes

\* A settle call names the bounty, the Reputation account of a payee, the
\* payee, the payee's token account, the bounty's escrow and their mint,
\* signed by the bounty's creator; or the same with one argument replaced
\* (another signer, another agent, the escrow as destination, the payee's
\* account as source, a foreign mint).
SettleCallsFor(b, rep) ==
  LET good == <<bounty[b].creator, b, rep, reputation[rep].agent,
                UserKey(reputation[rep].agent), BountyKey(b), "USDC">>
  IN {[good EXCEPT ![1] = signer] : signer \in Users}
       \cup {[good EXCEPT ![4] = agent] : agent \in Agents}
       \cup {[good EXCEPT ![5] = BountyKey(b)],
             [good EXCEPT ![6] = good[5]],
             [good EXCEPT ![7] = "OTHER"]}

SettleCalls ==
  UNION {SettleCallsFor(b, rep) : b \in Bounties, rep \in DOMAIN reputation}

Attest ==
  \E c \in AttestCalls : AttestSolution(c[1], c[2], c[3], c[4])

Submit ==
  \E c \in SubmitCalls : SubmitSolution(c[1], c[2], c[3], c[4])

Settle ==
  \E c \in SettleCalls : SettleBounty(c[1], c[2], c[3], c[4], c[5], c[6], c[7])

Next == Attest \/ Submit \/ Settle

Spec == Init /\ [][Next]_vars

\* ------------------------------------------------- an under-funded escrow
\* The bounties whose escrow holds one token less than the reward.
ShortEscrows == {NumBounties}

\* As Init, with the escrows of ShortEscrows short of their reward.
InitUnderfunded ==
  /\ bounty = [b \in Bounties |->
                 [creator |-> CreatorOf(b), reward |-> RewardOf(b),
                  status |-> "Open", solution_hash |-> NoHash]]
  /\ token = [k \in TokenAccounts |->
                IF k[1] = "user" THEN 0
                ELSE IF k[2] \in ShortEscrows THEN RewardOf(k[2]) - 1
                ELSE RewardOf(k[2])]
  /\ attestation = << >>
  /\ reputation = << >>
  /\ last = [op |-> "none", result |-> "Ok"]
  /\ submitter = [b \in Bounties |-> DefaultPubkey]
  /\ paidOut = [b \in Bounties |-> 0]
  /\ payee = [b \in Bounties |-> DefaultPubkey]
  /\ proof = [b \in Bounties |-> {}]

SpecUnderfunded == InitUnderfunded /\ [][Next]_vars

\* ================================================================ claims
Status(b) == bounty[b].status
Escrow(b) == token[BountyKey(b)]

\* The conditions of a submit call <<agent, b, task, solution_hash>>.
SubmitOpen(c) == bounty[c[2]].status = "Open"
SubmitNoHash(c) == bounty[c[2]].solution_hash = NoHash
SubmitOwner(c) == attestation[c[3]].agent = c[1]
SubmitHash(c) == attestation[c[3]].solution_hash = c[4]
SubmitScoreRoom(c) ==
  c[1] \in DOMAIN reputation => reputation[c[1]].score < U64_MAX
SubmitOf(c) == SubmitStep(c[1], c[2], c[3], c[4])

\* The conditions of a settle call
\* <<creator, b, rep, agent, ata, bta, mint>>.
SettleSubmitted(c) == bounty[c[2]].status = "Submitted"
SettleCreator(c) == c[1] = bounty[c[2]].creator
SettleAccountsOk(c) ==
  /\ reputation[c[3]].agent = c[4]
  /\ TokenOwner(c[5]) = UserKey(c[4])
  /\ TokenOwner(c[6]) = BountyKey(c[2])
  /\ TokenMint(c[5]) = c[7]
  /\ TokenMint(c[6]) = c[7]
SettleFunded(c) == token[c[6]] >= bounty[c[2]].reward
SettleCounterRoom(c) ==
  /\ reputation[c[3]].successful_bounties + 1 <= U64_MAX
  /\ reputation[c[3]].total_earned + bounty[c[2]].reward <= U64_MAX
SettleOf(c) == SettleStep(c[1], c[2], c[3], c[4], c[5], c[6], c[7])

\* C1: the value moved out of a bounty's escrow is 0 until the bounty is
\* Settled and exactly bounty.reward once it is (one transfer, never a
\* second), and the escrow holds what was funded less what was moved out.
C1_ExactlyOncePayout ==
  \A b \in Bounties :
    /\ paidOut[b] <= bounty[b].reward
    /\ paidOut[b] = bounty[b].reward <=> Status(b) = "Settled"
    /\ paidOut[b] \in {0, bounty[b].reward}
    /\ Escrow(b) = RewardOf(b) - paidOut[b]

\* every bounty is paid out and a further settle has been attempted
C1_Witness ==
  /\ \A b \in Bounties : Status(b) = "Settled" /\ paidOut[b] = bounty[b].reward
  /\ last.op = "settle"
  /\ last.result # "Ok"

\* C2: the agent paid and credited by a committed settle is the agent whose
\* submit moved the bounty from Open to Submitted.
C2_PayeeIsSubmitter ==
  \A b \in Bounties : Status(b) = "Settled" => payee[b] = submitter[b]

\* C3 as stated: submit succeeds iff the bounty is Open, has no solution
\* hash, the attestation is the caller's and its hash is the submitted one.
C3_SubmitIffFourChecks ==
  [][\A c \in SubmitCalls :
       SubmitSolution(c[1], c[2], c[3], c[4]) =>
         (last'.result = "Ok" <=>
            SubmitOpen(c) /\ SubmitNoHash(c) /\ SubmitOwner(c) /\ SubmitHash(c))]_vars

\* C3 amended: submit succeeds iff the four checks hold and the caller's
\* existing Reputation score (if any) is below the maximum; a violation of
\* exactly one of the four checks fails with its named error, and a score
\* at the maximum with ReputationScoreOverflow.
C3_SubmitIff ==
  \A c \in SubmitCalls :
    LET res == SubmitOf(c).result
        open == SubmitOpen(c)
        nohash == SubmitNoHash(c)
        owner == SubmitOwner(c)
        hash == SubmitHash(c)
    IN
    /\ res = "Ok" <=> open /\ nohash /\ owner /\ hash /\ SubmitScoreRoom(c)
    /\ ~open /\ nohash /\ owner /\ hash => res = "BountyNotOpen"
    /\ open /\ ~nohash /\ owner /\ hash => res = "BountyAlreadySubmitted"
    /\ open /\ nohash /\ ~owner /\ hash => res = "AttestationOwnerMismatch"
    /\ open /\ nohash /\ owner /\ ~hash => res = "SolutionHashMismatch"
    /\ open /\ nohash /\ owner /\ hash /\ ~SubmitScoreRoom(c)
         => res = "ReputationScoreOverflow"

\* a submit that passed the four checks has failed on the score overflow
C3_Witness ==
  /\ last = [op |-> "submit", result |-> "ReputationScoreOverflow"]
  /\ \E b \in Bounties : Status(b) = "Open"

\* C4 as stated: settle succeeds iff the bounty is Submitted and the caller
\* is its creator, and otherwise fails with BountyNotSubmitted or
\* UnauthorizedSettlement.
C4_SettleIffTwoChecks ==
  [][\A c \in SettleCalls :
       SettleBounty(c[1], c[2], c[3], c[4], c[5], c[6], c[7]) =>
         /\ last'.result = "Ok" <=> SettleSubmitted(c) /\ SettleCreator(c)
         /\ last'.result # "Ok" =>
              last'.result \in {"BountyNotSubmitted", "UnauthorizedSettlement"}]_vars

\* C4 amended: settle succeeds iff the bounty is Submitted, the caller is
\* its creator, the Reputation account is the named payee's, the token
\* accounts are the payee's and the bounty's escrow on the mint passed, the
\* escrow holds the reward and neither Reputation counter would overflow;
\* a bounty that is not Submitted fails with BountyNotSubmitted and a
\* Submitted one settled by another caller with UnauthorizedSettlement.
C4_SettleIff ==
  \A c \in SettleCalls :
    LET res == SettleOf(c).result IN
    /\ res = "Ok" <=>
         /\ SettleSubmitted(c)
         /\ SettleCreator(c)
         /\ SettleAccountsOk(c)
         /\ SettleFunded(c)
         /\ SettleCounterRoom(c)
    /\ ~SettleSubmitted(c) => res = "BountyNotSubmitted"
    /\ SettleSubmitted(c) /\ ~SettleCreator(c) => res = "UnauthorizedSettlement"

\* the creator's settle of a Submitted bounty has failed on another check
C4_Witness ==
  /\ last.op = "settle"
  /\ last.result \in {"ReputationOwnerMismatch", "ReputationOverflow"}
  /\ \E b \in Bounties : Status(b) = "Submitted"

\* C5: a settle that succeeds moves exactly bounty.reward from the escrow
\* to the payee's token account (their sum is conserved), adds 1 to the
\* payee's successful_bounties and bounty.reward to its total_earned, and
\* leaves the bounty Settled.
C5_SettleEffects ==
  \A c \in SettleCalls :
    LET step == SettleOf(c)
        b == c[2]
        agent == c[4]
        ata == c[5]
        bta == c[6]
        reward == bounty[b].reward
    IN
    step.result = "Ok" =>
      /\ step.token[bta] = token[bta] - reward
      /\ step.token[ata] = token[ata] + reward
      /\ step.token[bta] + step.token[ata]
           = token[bta] + token[ata]
      /\ step.reputation[agent].successful_bounties
           = reputation[agent].successful_bounties + 1
      /\ step.reputation[agent].total_earned
           = reputation[agent].total_earned + reward
      /\ step.bounty[b].status = "Settled"

\* a settle of the reward-2 bounty has committed and paid its payee
C5_Witness ==
  /\ last = [op |-> "settle", result |-> "Ok"]
  /\ \E b \in Bounties :
       /\ Status(b) = "Settled"
       /\ bounty[b].reward = MaxReward
       /\ Escrow(b) = 0
       /\ token[UserKey(payee[b])] >= MaxReward
       /\ reputation[payee[b]].total_earned = MaxReward

\* C6: a submit with hash h that succeeds leaves the bounty Submitted with
\* solution_hash = Some(h) and the caller's score one more than before, or
\* a new Reputation with score 1 and the other counters 0.
C6_SubmitEffects ==
  \A c \in SubmitCalls :
    LET step == SubmitOf(c)
        agent == c[1]
        b == c[2]
    IN
    step.result = "Ok" =>
      /\ step.bounty[b].status = "Submitted"
      /\ step.bounty[b].solution_hash = c[4]
      /\ agent \in DOMAIN step.reputation
      /\ IF agent \in DOMAIN reputation
         THEN step.reputation[agent].score = reputation[agent].score + 1
         ELSE /\ step.reputation[agent].score = 1
              /\ step.reputation[agent].successful_bounties = 0
              /\ step.reputation[agent].failed_bounties = 0
              /\ step.reputation[agent].total_earned = 0

\* one agent's second submit has committed (score 2), another's first (1)
C6_Witness ==
  /\ last = [op |-> "submit", result |-> "Ok"]
  /\ \E a1, a2 \in DOMAIN reputation :
       reputation[a1].score = 2 /\ reputation[a2].score = 1

\* C7: a submit that fails (bounty not Open, hash already present,
\* attestation of another agent, hash mismatch, score at the maximum)
\* leaves every bounty and every Reputation record as before, and creates
\* no Reputation record.
C7_FailedSubmitNoEffect ==
  \A c \in SubmitCalls :
    LET step == SubmitOf(c) IN
    /\ ~(SubmitOpen(c) /\ SubmitNoHash(c) /\ SubmitOwner(c) /\ SubmitHash(c)
           /\ SubmitScoreRoom(c))
         => step.result # "Ok"
    /\ step.result # "Ok" =>
         /\ step.bounty = bounty
         /\ step.reputation = reputation
         /\ DOMAIN step.reputation = DOMAIN reputation

\* a submit has failed while no Reputation record exists, and none was made
C7_Witness ==
  /\ last.op = "submit"
  /\ last.result \in {"SolutionHashMismatch", "AttestationOwnerMismatch"}
  /\ DOMAIN reputation = {}
  /\ \A b \in Bounties : Status(b) = "Open" /\ bounty[b].solution_hash = NoHash

\* C8: a submit on a Submitted or Settled bounty fails with BountyNotOpen,
\* a settle on a Settled or Open bounty fails with BountyNotSubmitted, and
\* neither changes a bounty, a Reputation record or a balance.
C8_NoReplay ==
  /\ \A c \in SubmitCalls :
       LET step == SubmitOf(c) IN
       Status(c[2]) \in {"Submitted", "Settled"} =>
         /\ step.result = "BountyNotOpen"
         /\ step.bounty = bounty
         /\ step.reputation = reputation
  /\ \A c \in SettleCalls :
       LET step == SettleOf(c) IN
       Status(c[2]) \in {"Settled", "Open"} =>
         /\ step.result = "BountyNotSubmitted"
         /\ step.bounty = bounty
         /\ step.reputation = reputation
         /\ step.token = token

\* a submit has been replayed when no bounty was Open any more
C8_Witness ==
  /\ last = [op |-> "submit", result |-> "BountyNotOpen"]
  /\ \A b \in Bounties : Status(b) \in {"Submitted", "Settled"}
  /\ \E b \in Bounties : Status(b) = "Settled"

\* C9: in every step a bounty's status stays as it is, or moves Open ->
\* Submitted in a submit that succeeds, or Submitted -> Settled in a settle
\* that succeeds; a Settled bounty stays Settled.
C9_StatusForward ==
  [][\A b \in Bounties :
       \/ bounty'[b].status = bounty[b].status
       \/ /\ bounty[b].status = "Open"
          /\ bounty'[b].status = "Submitted"
          /\ last' = [op |-> "submit", result |-> "Ok"]
       \/ /\ bounty[b].status = "Submitted"
          /\ bounty'[b].status = "Settled"
          /\ last' = [op |-> "settle", result |-> "Ok"]]_vars

\* a bounty has gone all the way to Settled while another is still Open
C9_Witness ==
  /\ \E b \in Bounties : Status(b) = "Settled"
  /\ \E b \in Bounties : Status(b) = "Submitted"
  /\ \E b \in Bounties : Status(b) = "Open"
  /\ last.result = "Ok"

\* C10: a bounty's solution_hash changes only in the step that moves the
\* bounty from Open to Submitted, from absent to a hash; that step always
\* writes it, and no later step changes or clears it.
C10_HashWrittenOnce ==
  [][\A b \in Bounties :
       /\ bounty'[b].solution_hash # bounty[b].solution_hash =>
            /\ bounty[b].solution_hash = NoHash
            /\ bounty'[b].solution_hash \in Hashes
            /\ bounty[b].status = "Open"
            /\ bounty'[b].status = "Submitted"
       /\ bounty[b].status = "Open" /\ bounty'[b].status = "Submitted" =>
            bounty'[b].solution_hash \in Hashes
       /\ bounty[b].status # "Open" =>
            bounty'[b].solution_hash = bounty[b].solution_hash]_vars

\* a Settled bounty still carries the hash written at its submission, and
\* later calls on it have failed
C10_Witness ==
  /\ \E b \in Bounties :
       Status(b) = "Settled" /\ bounty[b].solution_hash \in Hashes
  /\ \A b \in Bounties : Status(b) # "Open"
  /\ last.result \in {"BountyNotOpen", "BountyNotSubmitted"}

\* The call <<agent, solution_id, solution_hash, now>> of an attest.
AttestOf(c) == AttestStep(c[1], c[2], c[3], c[4])

\* C11: there is at most one Attestation per task id: an attest whose
\* task id already has an Attestation fails with DuplicateAttestation,
\* whatever hash or agent it carries, and creates or overwrites nothing.
C11_DuplicateAttestation ==
  /\ \A t \in DOMAIN attestation : attestation[t].solution_id = t
  /\ \A c \in AttestCalls :
       c[2] \in DOMAIN attestation =>
         /\ AttestOf(c).result = "DuplicateAttestation"
         /\ AttestOf(c).attestation = attestation

\* C12: a settle whose escrow cannot cover the reward fails as a whole:
\* no counter is incremented, no balance changes and the bounty stays
\* Submitted; and in every state the rewards credited to Reputation
\* records are rewards that left an escrow: a bounty is Settled only with
\* its escrow debited by the reward.
C12_TransferFailureRollsBack ==
  /\ \A c \in SettleCalls :
       (SettleSubmitted(c) /\ SettleCreator(c) /\ SettleAccountsOk(c)
          /\ ~SettleFunded(c)) =>
         /\ SettleOf(c).result = "InsufficientFunds"
         /\ SettleOf(c).reputation = reputation
         /\ SettleOf(c).token = token
         /\ SettleOf(c).bounty = bounty
         /\ Status(c[2]) = "Submitted"
  /\ \A b \in Bounties :
       LET funded == IF b \in ShortEscrows THEN RewardOf(b) - 1
                     ELSE RewardOf(b)
       IN Escrow(b) = (IF Status(b) = "Settled" THEN funded - bounty[b].reward
                       ELSE funded)
  /\ \A a \in DOMAIN reputation :
       /\ reputation[a].total_earned <= token[UserKey(a)]
       /\ reputation[a].successful_bounties <= token[UserKey(a)]

\* a settle of the under-funded bounty has failed on the transfer while
\* another bounty was settled and paid
C12_Witness ==
  /\ last = [op |-> "settle", result |-> "InsufficientFunds"]
  /\ \E b \in ShortEscrows :
       Status(b) = "Submitted" /\ Escrow(b) < bounty[b].reward
  /\ \E b \in Bounties : Status(b) = "Settled"

\* C13: a submit that passes every other check while the caller's existing
\* Reputation has its score at the maximum fails with
\* ReputationScoreOverflow; the score is unchanged (not wrapped) and the
\* bounty stays Open without a solution hash.
C13_ScoreOverflowFails ==
  \A c \in SubmitCalls :
    (SubmitOpen(c) /\ SubmitNoHash(c) /\ SubmitOwner(c) /\ SubmitHash(c)
       /\ c[1] \in DOMAIN reputation /\ reputation[c[1]].score = U64_MAX) =>
      /\ SubmitOf(c).result = "ReputationScoreOverflow"
      /\ SubmitOf(c).reputation = reputation
      /\ SubmitOf(c).reputation[c[1]].score = U64_MAX
      /\ SubmitOf(c).bounty = bounty
      /\ SubmitOf(c).bounty[c[2]].status = "Open"
      /\ SubmitOf(c).bounty[c[2]].solution_hash = NoHash

\* an agent whose score is at the maximum has had a submit refused for it,
\* and an Open bounty and an attestation of the agent remain
C13_Witness ==
  /\ last = [op |-> "submit", result |-> "ReputationScoreOverflow"]
  /\ \E a \in DOMAIN reputation, b \in Bounties, t \in DOMAIN attestation :
       /\ reputation[a].score = U64_MAX
       /\ attestation[t].agent = a
       /\ Status(b) = "Open" /\ bounty[b].solution_hash = NoHash

\* C14: when successful_bounties + 1 or total_earned + reward is not
\* representable, a settle that passes every other check fails with
\* ReputationOverflow and leaves the balances, both counters
\* (successful_bounties too when only total_earned overflows) and the
\* Submitted status unchanged.
C14_CounterOverflowFails ==
  \A c \in SettleCalls :
    (SettleSubmitted(c) /\ SettleCreator(c) /\ SettleAccountsOk(c)
       /\ SettleFunded(c) /\ ~SettleCounterRoom(c)) =>
      /\ SettleOf(c).result = "ReputationOverflow"
      /\ SettleOf(c).token = token
      /\ SettleOf(c).reputation = reputation
      /\ SettleOf(c).bounty = bounty
      /\ SettleOf(c).paidOut = paidOut
      /\ Status(c[2]) = "Submitted"

\* a settle has failed on total_earned alone: no record has its
\* successful_bounties at the maximum, and the escrow is still full
C14_Witness ==
  /\ last = [op |-> "settle", result |-> "ReputationOverflow"]
  /\ \A a \in DOMAIN reputation : reputation[a].successful_bounties < U64_MAX
  /\ \E b \in Bounties, a \in DOMAIN reputation :
       /\ Status(b) = "Submitted"
       /\ Escrow(b) = bounty[b].reward
       /\ reputation[a].total_earned + bounty[b].reward > U64_MAX

\* C15: transactions on one bounty are serialised: of two submits that
\* would each commit on an Open bounty, once one has committed the other
\* fails on the status check, and of two settles that would each commit on
\* a Submitted bounty, once one has committed the other fails on the status
\* check; the effects of both are never applied.
C15_OneCommitPerBounty ==
  [][/\ (last'.op = "submit" /\ last'.result = "Ok") =>
          \A c \in SubmitCalls, d \in SubmitCalls :
            (/\ c[2] = d[2]
             /\ SubmitOf(c).result = "Ok"
             /\ SubmitOf(d).result = "Ok"
             /\ SubmitSolution(c[1], c[2], c[3], c[4])) =>
              (SubmitOf(d).result)' = "BountyNotOpen"
     /\ (last'.op = "settle" /\ last'.result = "Ok") =>
          \A c \in SettleCalls, d \in SettleCalls :
            (/\ c[2] = d[2]
             /\ SettleOf(c).result = "Ok"
             /\ SettleOf(d).result = "Ok"
             /\ SettleBounty(c[1], c[2], c[3], c[4], c[5], c[6], c[7])) =>
              (SettleOf(d).result)' = "BountyNotSubmitted"]_vars

\* two agents could each have submitted to the bounty that one of them
\* took, and two settles naming different agents could each have settled
\* the bounty that one of them settled
C15_Witness ==
  /\ last = [op |-> "settle", result |-> "Ok"]
  /\ \E b \in Bounties, t \in DOMAIN attestation, u \in DOMAIN attestation :
       /\ Status(b) = "Settled"
       /\ attestation[t].agent # attestation[u].agent
       /\ DOMAIN reputation = Agents
       /\ \A a \in Agents : reputation[a].successful_bounties < U64_MAX
                            /\ reputation[a].total_earned < U64_MAX

\* C16: no field of a Reputation record ever decreases: from one state to
\* the next every existing record is kept, and its score,
\* successful_bounties, failed_bounties and total_earned are at least what
\* they were, also when a submit touches a record that already exists.
C16_CountersMonotone ==
  [][\A a \in DOMAIN reputation :
       /\ a \in DOMAIN reputation'
       /\ reputation'[a].agent = reputation[a].agent
       /\ reputation'[a].score >= reputation[a].score
       /\ reputation'[a].successful_bounties >= reputation[a].successful_bounties
       /\ reputation'[a].failed_bounties >= reputation[a].failed_bounties
       /\ reputation'[a].total_earned >= reputation[a].total_earned]_vars

\* a submit has just raised the score of a record that existed and had
\* already been credited by a settle
C16_Witness ==
  /\ last = [op |-> "submit", result |-> "Ok"]
  /\ \E a \in DOMAIN reputation, b \in Bounties :
       /\ Status(b) = "Submitted" /\ submitter[b] = a
       /\ reputation[a].score = U64_MAX
       /\ reputation[a].successful_bounties >= 1
       /\ reputation[a].total_earned >= 1

\* C17: an Attestation never changes once created: from one state to the
\* next every existing record is kept with all its fields, whichever
\* instruction runs (attest on the same task id, submit, settle), and it
\* stays unverified under the task id it was created for.
C17_AttestationImmutable ==
  [][\A t \in DOMAIN attestation :
       /\ t \in DOMAIN attestation'
       /\ attestation'[t] = attestation[t]
       /\ attestation'[t].solution_id = t
       /\ attestation'[t].verified = FALSE]_vars

\* every task id is attested, a further attest has been refused, and an
\* attestation has been presented by a submit whose bounty is now Settled
C17_Witness ==
  /\ DOMAIN attestation = Tasks
  /\ last = [op |-> "attest", result |-> "AccountAlreadyInUse"]
  /\ \E b \in Bounties : Status(b) = "Settled" /\ proof[b] # {}

\* C18: an attestation is not replayed across bounties: a submit presenting
\* an attestation that a committed submit presented for another bounty
\* fails, so each Attestation backs at most one Submitted or Settled
\* bounty.
C18_NoReplayAcrossBounties ==
  /\ \A b1 \in Bounties, b2 \in Bounties :
       (b1 # b2 /\ Status(b1) # "Open" /\ Status(b2) # "Open") =>
         proof[b1] \cap proof[b2] = {}
  /\ \A c \in SubmitCalls :
       (\E b \in Bounties : b # c[2] /\ c[3] \in proof[b]) =>
         SubmitOf(c).result # "Ok"

RECURSIVE Sum(_, _)
\* the sum of f over the set S
Sum(f, S) ==
  IF S = {} THEN 0
  ELSE LET x == CHOOSE y \in S : TRUE IN f[x] + Sum(f, S \ {x})

SettledBounties == {b \in Bounties : Status(b) = "Settled"}

\* C19: over all Reputation records, the sum of successful_bounties equals
\* the number of Settled bounties, and the sum of total_earned equals the
\* sum of the rewards of the Settled bounties, which is the total value
\* moved out of the escrows.
C19_ReputationTotals ==
  /\ Sum([a \in DOMAIN reputation |-> reputation[a].successful_bounties],
         DOMAIN reputation) = Cardinality(SettledBounties)
  /\ Sum([a \in DOMAIN reputation |-> reputation[a].total_earned],
         DOMAIN reputation)
       = Sum([b \in Bounties |-> bounty[b].reward], SettledBounties)
  /\ Sum([b \in Bounties |-> bounty[b].reward], SettledBounties)
       = Sum([b \in Bounties |-> RewardOf(b) - Escrow(b)], Bounties)
  /\ Sum([b \in Bounties |-> RewardOf(b) - Escrow(b)], Bounties)
       = Sum([u \in Users |-> token[UserKey(u)]], Users)

\* both agents have been credited, for bounties of different rewards
C19_Witness ==
  /\ DOMAIN reputation = Agents
  /\ \A a \in Agents : reputation[a].successful_bounties >= 1
  /\ \E a \in Agents : reputation[a].total_earned = MaxReward
  /\ \E a \in Agents : reputation[a].total_earned < MaxReward
  /\ Cardinality(SettledBounties) >= 2

\* C20: in every state a bounty's solution hash is absent exactly when its
\* status is Open, so the BountyAlreadySubmitted guards of submit and
\* settle are never the check that fails: no call returns that error.
C20_HashIffNotOpen ==
  /\ \A b \in Bounties : bounty[b].solution_hash = NoHash <=> Status(b) = "Open"
  /\ \A c \in SubmitCalls : SubmitOf(c).result # "BountyAlreadySubmitted"
  /\ \A c \in SettleCalls : SettleOf(c).result # "BountyAlreadySubmitted"
  /\ last.result # "BountyAlreadySubmitted"

\* bounties in each of the three statuses exist and a submit has just been
\* refused by the status guard ahead of the hash guard
C20_Witness ==
  /\ \E b \in Bounties : Status(b) = "Open"
  /\ \E b \in Bounties : Status(b) = "Submitted"
  /\ \E b \in Bounties : Status(b) = "Settled"
  /\ last = [op |-> "submit", result |-> "BountyNotOpen"]
====
